---- MODULE Spec2Model ----
(***************************************************************************)
(* Model of DigitalEye/pyscripts/vision_engine.py: the VLM worker process  *)
(* (vlm_worker_process, _hailo_inference_inner), the two multiprocessing   *)
(* queues, and the Backend handle (vlm_inference, _isReady, close).        *)
(*                                                                         *)
(* Text is a sequence of one-character strings; a fixed literal of the     *)
(* source that is never split is kept as one element.                      *)
(***************************************************************************)
EXTENDS Integers, Sequences, FiniteSets, TLC

VARIABLES
    wpc,              \* worker: position in vlm_worker_process
    vdevice,          \* worker: "unbound" | "held" | "released"
    vlm,              \* worker: "unbound" | "held" | "released"
    item,             \* worker: the item last read from the request queue
    text_buffer,      \* _hailo_inference_inner: text_buffer
    pending,          \* _hailo_inference_inner: sentences still to be put
    nfrag,            \* fragments the model stream has produced for item
    result,           \* value returned by _hailo_inference_inner
    werr,             \* str(e) of the exception caught at line 38
    request_queue,    \* Backend._request_queue
    response_queue,   \* Backend._response_queue
    gens,             \* caller: state of each generator vlm_inference returned
    yielded,          \* caller: chunks each generator has yielded
    ngen,             \* caller: number of vlm_inference calls made
    cpc,              \* caller: position inside the call in progress
    cur,              \* caller: generator being advanced by next()
    msg,              \* _isReady: message taken off the response queue
    ready,            \* Backend._ready (absent = FALSE)
    ret,              \* value returned by the last finished _isReady call
    nclose,           \* caller: number of close() calls made
    nrequeue,         \* caller: number of _isReady calls that took a non-init message
    wlog,             \* history: what the worker did, in order
    enqlog            \* history: items put on the request queue, in order

vars == <<wpc, vdevice, vlm, item, text_buffer, pending, nfrag, result, werr,
          request_queue, response_queue, gens, yielded, ngen, cpc, cur, msg,
          ready, ret, nclose, nrequeue, wlog, enqlog>>

workerVars == <<wpc, vdevice, vlm, item, text_buffer, pending, nfrag, result, werr>>
callerVars == <<gens, yielded, ngen, cpc, cur, msg, ready, ret, nclose, nrequeue, enqlog>>

----------------------------------------------------------------------------
(* Program constants *)

RequestQueueMaxsize == 10
ResponseQueueMaxsize == 100

(* Bounds of the model *)

MaxRequests == 2        \* vlm_inference calls
MaxFragments == 1       \* fragments per generation
MaxCloses == 1          \* close() calls
MaxRequeues == 1        \* _isReady calls that put a message back
BPMaxRequests == 11     \* vlm_inference calls, backpressure specification
FloodMaxFragments == 100 \* fragments per generation, flood specification
SegMaxFragments == 3    \* fragments per generation, segmenter specification

----------------------------------------------------------------------------
(* Text *)

Whitespace == {" ", "\n"}
Terminators == {".", "!", "?"}
IM_END == <<"<|im_end|>">>

\* str.strip()
RECURSIVE LStrip(_)
LStrip(s) ==
    IF s # <<>> /\ Head(s) \in Whitespace THEN LStrip(Tail(s)) ELSE s

RECURSIVE RStrip(_)
RStrip(s) ==
    IF s # <<>> /\ s[Len(s)] \in Whitespace
    THEN RStrip(SubSeq(s, 1, Len(s) - 1)) ELSE s

Strip(s) == RStrip(LStrip(s))

\* Positions at which (?<=[.!?])\s+ matches: a whitespace character preceded
\* by a terminator.
MatchStarts(s) ==
    {i \in 2..Len(s) : s[i] \in Whitespace /\ s[i - 1] \in Terminators}

SetMin(S) == CHOOSE x \in S : \A y \in S : x <= y

\* Last position of the whitespace run that starts at i (\s+ is greedy).
RECURSIVE RunEnd(_, _)
RunEnd(s, i) ==
    IF i < Len(s) /\ s[i + 1] \in Whitespace THEN RunEnd(s, i + 1) ELSE i

\* re.split(r'(?<=[.!?])\s+', s)
RECURSIVE ReSplit(_)
ReSplit(s) ==
    IF MatchStarts(s) = {} THEN <<s>>
    ELSE LET i == SetMin(MatchStarts(s))
             j == RunEnd(s, i)
         IN  <<SubSeq(s, 1, i - 1)>> \o ReSplit(SubSeq(s, j + 1, Len(s)))

\* [sent.strip() for sent in sentences if sent.strip()]
RECURSIVE StrippedNonEmpty(_)
StrippedNonEmpty(ss) ==
    IF ss = <<>> THEN <<>>
    ELSE (IF Strip(Head(ss)) # <<>> THEN <<Strip(Head(ss))>> ELSE <<>>)
         \o StrippedNonEmpty(Tail(ss))

----------------------------------------------------------------------------
(* Messages *)

None == 0                      \* the shutdown sentinel on the request queue

NoText == <<>>
InitMsg == [tag |-> "init", req |-> 0, text |-> <<"VLM initialized">>]
StreamingMsg(r, chunk) == [tag |-> "streaming", req |-> r, text |-> chunk]
CompleteMsg(r) == [tag |-> "complete", req |-> r, text |-> NoText]
ResultMsg(r, res) == [tag |-> "result", req |-> r, text |-> res]
ErrorMsg(r, e) == [tag |-> "error", req |-> r, text |-> e]

\* Exception texts (str(e)) of the external collaborators
DeviceError == <<"device unavailable">>
ModelError == <<"model load failed">>
GenerationError == <<"generation failed">>

\* return values of _hailo_inference_inner
NormalResult == <<"Generation Complete">>
ErrorResult(e) == <<"Error: ">> \o e

NoItem == -1

----------------------------------------------------------------------------
(* History events of the worker *)

PutEv(m) == [ev |-> "put", req |-> m.req, tag |-> m.tag]
GetEv(it) == [ev |-> "get", req |-> it, tag |-> ""]
ClearEv(r) == [ev |-> "clear", req |-> r, tag |-> ""]
RaiseEv(r) == [ev |-> "raise", req |-> r, tag |-> ""]
ReleaseEv(h) == [ev |-> "release", req |-> 0, tag |-> h]
FragmentEv(r, chunk) == [ev |-> "fragment", req |-> r, tag |-> "", text |-> chunk]

----------------------------------------------------------------------------
(* The state after Backend.__init__: both queues empty, the worker process  *)
(* started, no call made on the handle.                                     *)

Init ==
    /\ wpc = "create_vdevice"
    /\ vdevice = "unbound"
    /\ vlm = "unbound"
    /\ item = NoItem
    /\ text_buffer = <<>>
    /\ pending = <<>>
    /\ nfrag = 0
    /\ result = NoText
    /\ werr = NoText
    /\ request_queue = <<>>
    /\ response_queue = <<>>
    /\ gens = <<>>
    /\ yielded = <<>>
    /\ ngen = 0
    /\ cpc = "idle"
    /\ cur = 0
    /\ msg = InitMsg
    /\ ready = FALSE
    /\ ret = FALSE
    /\ nclose = 0
    /\ nrequeue = 0
    /\ wlog = <<>>
    /\ enqlog = <<>>

\* multiprocessing.Process.is_alive()
IsAlive == wpc \notin {"exited", "terminated"}

----------------------------------------------------------------------------
(* vlm_worker_process *)

\* response_queue.put(m) in the worker: blocks while the queue is full
WorkerPut(m) ==
    /\ Len(response_queue) < ResponseQueueMaxsize
    /\ response_queue' = Append(response_queue, m)
    /\ wlog' = Append(wlog, PutEv(m))

\* lines 13-15: VDevice.create_params(); VDevice(params)
WorkerCreateVDevice ==
    /\ wpc = "create_vdevice"
    /\ \E ok \in BOOLEAN :
         IF ok
         THEN vdevice' = "held" /\ wpc' = "create_vlm" /\ werr' = werr
         ELSE vdevice' = vdevice /\ wpc' = "outer_except" /\ werr' = DeviceError
    /\ UNCHANGED <<vlm, item, text_buffer, pending, nfrag, result,
                   request_queue, response_queue, wlog>>
    /\ UNCHANGED callerVars

\* line 16: VLM(vdevice, hef_path)
WorkerCreateVLM ==
    /\ wpc = "create_vlm"
    /\ \E ok \in BOOLEAN :
         IF ok
         THEN vlm' = "held" /\ wpc' = "put_init" /\ werr' = werr
         ELSE vlm' = vlm /\ wpc' = "outer_except" /\ werr' = ModelError
    /\ UNCHANGED <<vdevice, item, text_buffer, pending, nfrag, result,
                   request_queue, response_queue, wlog>>
    /\ UNCHANGED callerVars

\* faulty variant of WorkerPutInit: the readiness message is never sent
WorkerPutInitOmitted ==
    /\ wpc = "put_init"
    /\ wpc' = "get"
    /\ UNCHANGED <<vdevice, vlm, item, text_buffer, pending, nfrag, result, werr,
                   request_queue, response_queue, wlog>>
    /\ UNCHANGED callerVars

\* line 18: response_queue.put({'init': 'VLM initialized', 'error': None})
WorkerPutInit ==
    /\ wpc = "put_init"
    /\ WorkerPut(InitMsg)
    /\ wpc' = "get"
    /\ UNCHANGED <<vdevice, vlm, item, text_buffer, pending, nfrag, result, werr,
                   request_queue>>
    /\ UNCHANGED callerVars

\* faulty variant of WorkerGet: the newest item is taken, not the oldest
WorkerGetNewest ==
    /\ wpc = "get"
    /\ request_queue # <<>>
    /\ item' = request_queue[Len(request_queue)]
    /\ request_queue' = SubSeq(request_queue, 1, Len(request_queue) - 1)
    /\ wlog' = Append(wlog, GetEv(request_queue[Len(request_queue)]))
    /\ IF request_queue[Len(request_queue)] = None
       THEN wpc' = "finally" /\ UNCHANGED <<text_buffer, pending, nfrag>>
       ELSE wpc' = "generate" /\ text_buffer' = <<>> /\ pending' = <<>> /\ nfrag' = 0
    /\ UNCHANGED <<vdevice, vlm, result, werr, response_queue>>
    /\ UNCHANGED callerVars

\* faulty variant of WorkerGet: the sentinel does not end the serve loop
WorkerGetIgnoresSentinel ==
    /\ wpc = "get"
    /\ request_queue # <<>>
    /\ item' = Head(request_queue)
    /\ request_queue' = Tail(request_queue)
    /\ wlog' = Append(wlog, GetEv(Head(request_queue)))
    /\ IF Head(request_queue) = None
       THEN wpc' = "get" /\ UNCHANGED <<text_buffer, pending, nfrag>>
       ELSE wpc' = "generate" /\ text_buffer' = <<>> /\ pending' = <<>> /\ nfrag' = 0
    /\ UNCHANGED <<vdevice, vlm, result, werr, response_queue>>
    /\ UNCHANGED callerVars

\* lines 20-22, and for a Request lines 25-33 and 49-69: the call of
\* _hailo_inference_inner up to the start of the generation stream
WorkerGet ==
    /\ wpc = "get"
    /\ request_queue # <<>>
    /\ item' = Head(request_queue)
    /\ request_queue' = Tail(request_queue)
    /\ wlog' = Append(wlog, GetEv(Head(request_queue)))
    /\ IF Head(request_queue) = None
       THEN wpc' = "finally" /\ UNCHANGED <<text_buffer, pending, nfrag>>
       ELSE wpc' = "generate" /\ text_buffer' = <<>> /\ pending' = <<>> /\ nfrag' = 0
    /\ UNCHANGED <<vdevice, vlm, result, werr, response_queue>>
    /\ UNCHANGED callerVars

\* faulty variant of WorkerFragment: the remainder after the last sentence
\* boundary is dropped instead of kept in the buffer
WorkerFragmentDropsRemainder(frags, maxFrag) ==
    /\ wpc = "generate"
    /\ nfrag < maxFrag
    /\ nfrag' = nfrag + 1
    /\ \E chunk \in frags :
         /\ wlog' = Append(wlog, FragmentEv(item, chunk))
         /\ IF chunk = IM_END
            THEN UNCHANGED <<text_buffer, pending, wpc>>
            ELSE LET sentences == ReSplit(text_buffer \o chunk)
                     complete_sentences == SubSeq(sentences, 1, Len(sentences) - 1)
                 IN  IF Len(sentences) > 1
                     THEN /\ text_buffer' = <<>>
                          /\ pending' = StrippedNonEmpty(complete_sentences)
                          /\ wpc' = IF StrippedNonEmpty(complete_sentences) # <<>>
                                    THEN "put_sentence" ELSE "generate"
                     ELSE /\ text_buffer' = text_buffer \o chunk
                          /\ UNCHANGED <<pending, wpc>>
    /\ UNCHANGED <<vdevice, vlm, item, result, werr,
                   request_queue, response_queue>>
    /\ UNCHANGED callerVars

\* faulty variant of WorkerFragment: the buffer is never split, so everything
\* is left to the final flush
WorkerFragmentNoSplit(frags, maxFrag) ==
    /\ wpc = "generate"
    /\ nfrag < maxFrag
    /\ nfrag' = nfrag + 1
    /\ \E chunk \in frags :
         /\ wlog' = Append(wlog, FragmentEv(item, chunk))
         /\ IF chunk = IM_END
            THEN UNCHANGED <<text_buffer, pending, wpc>>
            ELSE /\ text_buffer' = text_buffer \o chunk
                 /\ UNCHANGED <<pending, wpc>>
    /\ UNCHANGED <<vdevice, vlm, item, result, werr,
                   request_queue, response_queue>>
    /\ UNCHANGED callerVars

\* lines 70-85: one fragment of the generation stream, up to the first put
WorkerFragment(frags, maxFrag) ==
    /\ wpc = "generate"
    /\ nfrag < maxFrag
    /\ nfrag' = nfrag + 1
    /\ \E chunk \in frags :
         /\ wlog' = Append(wlog, FragmentEv(item, chunk))
         /\ IF chunk = IM_END
            THEN UNCHANGED <<text_buffer, pending, wpc>>
            ELSE LET sentences == ReSplit(text_buffer \o chunk)
                     complete_sentences == SubSeq(sentences, 1, Len(sentences) - 1)
                 IN  IF Len(sentences) > 1
                     THEN /\ text_buffer' = sentences[Len(sentences)]
                          /\ pending' = StrippedNonEmpty(complete_sentences)
                          /\ wpc' = IF StrippedNonEmpty(complete_sentences) # <<>>
                                    THEN "put_sentence" ELSE "generate"
                     ELSE /\ text_buffer' = text_buffer \o chunk
                          /\ UNCHANGED <<pending, wpc>>
    /\ UNCHANGED <<vdevice, vlm, item, result, werr,
                   request_queue, response_queue>>
    /\ UNCHANGED callerVars

\* lines 86-88: response_queue.put({'status': 'streaming', 'chunk': sent.strip()})
WorkerPutSentence ==
    /\ wpc = "put_sentence"
    /\ WorkerPut(StreamingMsg(item, Head(pending)))
    /\ pending' = Tail(pending)
    /\ wpc' = IF Tail(pending) = <<>> THEN "generate" ELSE "put_sentence"
    /\ UNCHANGED <<vdevice, vlm, item, text_buffer, nfrag, result, werr,
                   request_queue>>
    /\ UNCHANGED callerVars

\* faulty variant of WorkerStreamEnd: the remainder is not flushed
WorkerStreamEndNoFlush ==
    /\ wpc = "generate"
    /\ wpc' = "clear_context"
    /\ UNCHANGED <<vdevice, vlm, item, text_buffer, pending, nfrag, result, werr,
                   request_queue, response_queue, wlog>>
    /\ UNCHANGED callerVars

\* lines 70, 90-91: the generation stream ends
WorkerStreamEnd ==
    /\ wpc = "generate"
    /\ wpc' = IF Strip(text_buffer) # <<>> THEN "put_flush" ELSE "clear_context"
    /\ UNCHANGED <<vdevice, vlm, item, text_buffer, pending, nfrag, result, werr,
                   request_queue, response_queue, wlog>>
    /\ UNCHANGED callerVars

\* faulty variant of WorkerPutFlush: the remainder is put as it is
WorkerPutFlushUnstripped ==
    /\ wpc = "put_flush"
    /\ WorkerPut(StreamingMsg(item, text_buffer))
    /\ wpc' = "clear_context"
    /\ UNCHANGED <<vdevice, vlm, item, text_buffer, pending, nfrag, result, werr,
                   request_queue>>
    /\ UNCHANGED callerVars

\* line 92: the flush of the remainder
WorkerPutFlush ==
    /\ wpc = "put_flush"
    /\ WorkerPut(StreamingMsg(item, Strip(text_buffer)))
    /\ wpc' = "clear_context"
    /\ UNCHANGED <<vdevice, vlm, item, text_buffer, pending, nfrag, result, werr,
                   request_queue>>
    /\ UNCHANGED callerVars

\* faulty variant of WorkerGenerationRaises: the error path clears the context
WorkerGenerationRaisesClears ==
    /\ wpc = "generate"
    /\ wlog' = wlog \o <<RaiseEv(item), ClearEv(item)>>
    /\ result' = ErrorResult(GenerationError)
    /\ wpc' = "put_complete"
    /\ text_buffer' = <<>> /\ pending' = <<>> /\ nfrag' = 0
    /\ UNCHANGED <<vdevice, vlm, item, werr,
                   request_queue, response_queue>>
    /\ UNCHANGED callerVars

\* lines 94-95: vlm.clear_context(); return {'answer': 'Generation Complete', ...}
WorkerClearContext ==
    /\ wpc = "clear_context"
    /\ wlog' = Append(wlog, ClearEv(item))
    /\ result' = NormalResult
    /\ wpc' = "put_complete"
    /\ text_buffer' = <<>> /\ pending' = <<>> /\ nfrag' = 0
    /\ UNCHANGED <<vdevice, vlm, item, werr,
                   request_queue, response_queue>>
    /\ UNCHANGED callerVars

\* lines 69-70 raising, caught at lines 97-101: _hailo_inference_inner returns
\* {'answer': f'Error: {str(e)}', ...}; nothing propagates to line 36
WorkerGenerationRaises ==
    /\ wpc = "generate"
    /\ wlog' = Append(wlog, RaiseEv(item))
    /\ result' = ErrorResult(GenerationError)
    /\ wpc' = "put_complete"
    /\ text_buffer' = <<>> /\ pending' = <<>> /\ nfrag' = 0
    /\ UNCHANGED <<vdevice, vlm, item, werr,
                   request_queue, response_queue>>
    /\ UNCHANGED callerVars

\* line 34: response_queue.put({'status': 'complete', 'error': None})
WorkerPutComplete ==
    /\ wpc = "put_complete"
    /\ WorkerPut(CompleteMsg(item))
    /\ wpc' = "put_result"
    /\ UNCHANGED <<vdevice, vlm, item, text_buffer, pending, nfrag, result, werr,
                   request_queue>>
    /\ UNCHANGED callerVars

\* faulty variant of WorkerPutResult: the Result message is not sent
WorkerPutResultOmitted ==
    /\ wpc = "put_result"
    /\ wpc' = "get"
    /\ UNCHANGED <<vdevice, vlm, item, text_buffer, pending, nfrag, result, werr,
                   request_queue, response_queue, wlog>>
    /\ UNCHANGED callerVars

\* faulty variant of WorkerPutResult: a failed generation ends the serve loop
WorkerPutResultThenLeave ==
    /\ wpc = "put_result"
    /\ WorkerPut(ResultMsg(item, result))
    /\ wpc' = IF result = NormalResult THEN "get" ELSE "finally"
    /\ UNCHANGED <<vdevice, vlm, item, text_buffer, pending, nfrag, result, werr,
                   request_queue>>
    /\ UNCHANGED callerVars

\* line 35: response_queue.put({'result': result, 'error': None})
WorkerPutResult ==
    /\ wpc = "put_result"
    /\ WorkerPut(ResultMsg(item, result))
    /\ wpc' = "get"
    /\ UNCHANGED <<vdevice, vlm, item, text_buffer, pending, nfrag, result, werr,
                   request_queue>>
    /\ UNCHANGED callerVars

\* faulty variant of WorkerOuterExcept: the serve loop is entered after a
\* failed acquisition
WorkerOuterExceptServes ==
    /\ wpc = "outer_except"
    /\ WorkerPut(ErrorMsg(0, werr))
    /\ wpc' = "get"
    /\ UNCHANGED <<vdevice, vlm, item, text_buffer, pending, nfrag, result, werr,
                   request_queue>>
    /\ UNCHANGED callerVars

\* lines 38-39: response_queue.put({'status': 'error', 'error': str(e)})
WorkerOuterExcept ==
    /\ wpc = "outer_except"
    /\ WorkerPut(ErrorMsg(0, werr))
    /\ wpc' = "finally"
    /\ UNCHANGED <<vdevice, vlm, item, text_buffer, pending, nfrag, result, werr,
                   request_queue>>
    /\ UNCHANGED callerVars

\* lines 40-45: vlm.release(); vdevice.release() inside one try; the process
\* ends after it.  An unbound vlm raises NameError at line 42.
WorkerFinally ==
    /\ wpc = "finally"
    /\ wpc' = "exited"
    /\ IF vlm = "unbound"
       THEN /\ wlog' = wlog
            /\ UNCHANGED <<vlm, vdevice>>
       ELSE \E vlmOk \in BOOLEAN, vdeviceOk \in BOOLEAN :
              IF ~vlmOk
              THEN /\ wlog' = Append(wlog, ReleaseEv("vlm"))
                   /\ UNCHANGED <<vlm, vdevice>>
              ELSE /\ wlog' = wlog \o <<ReleaseEv("vlm"), ReleaseEv("vdevice")>>
                   /\ vlm' = "released"
                   /\ vdevice' = IF vdeviceOk THEN "released" ELSE vdevice
    /\ UNCHANGED <<item, text_buffer, pending, nfrag, result, werr,
                   request_queue, response_queue>>
    /\ UNCHANGED callerVars

----------------------------------------------------------------------------
(* Backend.vlm_inference: a generator function.  The call returns a         *)
(* generator and runs nothing of the body; the body runs inside next().     *)

Chunk(text, r) == [text |-> text, req |-> r]

\* str(e) of queue.Empty, which Queue.get(timeout=...) raises
EmptyText == <<>>

\* line 120: the call; request ids are the call numbers.  One call is in
\* flight at a time (vision_interface.py lines 81 and 238 run each generator
\* to its end before the next command is read).
Submit(maxReq) ==
    /\ cpc = "idle"
    /\ ngen < maxReq
    /\ \A g \in 1..ngen : gens[g] = "done"
    /\ ngen' = ngen + 1
    /\ gens' = Append(gens, "new")
    /\ yielded' = Append(yielded, <<>>)
    /\ UNCHANGED <<cpc, cur, msg, ready, ret, nclose, nrequeue, enqlog>>
    /\ UNCHANGED workerVars
    /\ UNCHANGED <<request_queue, response_queue, wlog>>

\* next() on generator g: the body starts (lines 121-127) or resumes after a
\* yield (line 134 back to line 130; line 140, 147 or 150 on to its break)
NextCall(g) ==
    /\ cpc = "idle"
    /\ g \in 1..ngen
    /\ gens[g] \in {"new", "suspended", "error_yielded"}
    /\ cur' = g
    /\ IF gens[g] = "error_yielded"
       THEN gens' = [gens EXCEPT ![g] = "done"] /\ cpc' = "idle"
       ELSE gens' = gens /\ cpc' = IF gens[g] = "new" THEN "next_put" ELSE "next_get"
    /\ UNCHANGED <<yielded, ngen, msg, ready, ret, nclose, nrequeue, enqlog>>
    /\ UNCHANGED workerVars
    /\ UNCHANGED <<request_queue, response_queue, wlog>>

\* faulty variant of NextPut: the put does not wait for room
NextPutNoWait ==
    /\ cpc = "next_put"
    /\ request_queue' = Append(request_queue, cur)
    /\ enqlog' = Append(enqlog, cur)
    /\ gens' = [gens EXCEPT ![cur] = "running"]
    /\ cpc' = "next_get"
    /\ UNCHANGED <<yielded, ngen, cur, msg, ready, ret, nclose, nrequeue>>
    /\ UNCHANGED workerVars
    /\ UNCHANGED <<response_queue, wlog>>

\* line 128: self._request_queue.put(request_data), blocks while the queue is full
NextPut ==
    /\ cpc = "next_put"
    /\ Len(request_queue) < RequestQueueMaxsize
    /\ request_queue' = Append(request_queue, cur)
    /\ enqlog' = Append(enqlog, cur)
    /\ gens' = [gens EXCEPT ![cur] = "running"]
    /\ cpc' = "next_get"
    /\ UNCHANGED <<yielded, ngen, cur, msg, ready, ret, nclose, nrequeue>>
    /\ UNCHANGED workerVars
    /\ UNCHANGED <<response_queue, wlog>>

\* faulty variant of NextGet: a stale Init message ends the sequence and an
\* Error message is yielded without its prefix
NextGetInitEnds ==
    /\ cpc = "next_get"
    /\ IF response_queue # <<>>
       THEN LET response == Head(response_queue)
            IN  /\ response_queue' = Tail(response_queue)
                /\ CASE response.tag = "streaming" ->
                          /\ yielded' = [yielded EXCEPT ![cur] =
                                 Append(@, Chunk(response.text, response.req))]
                          /\ gens' = [gens EXCEPT ![cur] = "suspended"]
                          /\ cpc' = "idle"
                     [] response.tag \in {"complete", "init"} ->
                          /\ gens' = [gens EXCEPT ![cur] = "done"]
                          /\ cpc' = "idle"
                          /\ yielded' = yielded
                     [] response.tag = "error" ->
                          /\ yielded' = [yielded EXCEPT ![cur] =
                                 Append(@, Chunk(response.text, response.req))]
                          /\ gens' = [gens EXCEPT ![cur] = "error_yielded"]
                          /\ cpc' = "idle"
                     [] OTHER ->
                          UNCHANGED <<yielded, gens, cpc>>
       ELSE /\ yielded' = [yielded EXCEPT ![cur] =
                   Append(@, Chunk(<<"Error: ">> \o EmptyText, cur))]
            /\ gens' = [gens EXCEPT ![cur] = "error_yielded"]
            /\ cpc' = "idle"
            /\ response_queue' = response_queue
    /\ UNCHANGED <<ngen, cur, msg, ready, ret, nclose, nrequeue, enqlog>>
    /\ UNCHANGED workerVars
    /\ UNCHANGED <<request_queue, wlog>>

\* faulty variant of NextGet: a Result message ends the sequence as Complete
\* does
NextGetResultEnds ==
    /\ cpc = "next_get"
    /\ IF response_queue # <<>>
       THEN LET response == Head(response_queue)
            IN  /\ response_queue' = Tail(response_queue)
                /\ CASE response.tag = "streaming" ->
                          /\ yielded' = [yielded EXCEPT ![cur] =
                                 Append(@, Chunk(response.text, response.req))]
                          /\ gens' = [gens EXCEPT ![cur] = "suspended"]
                          /\ cpc' = "idle"
                     [] response.tag \in {"complete", "result"} ->
                          /\ gens' = [gens EXCEPT ![cur] = "done"]
                          /\ cpc' = "idle"
                          /\ yielded' = yielded
                     [] response.tag = "error" ->
                          /\ yielded' = [yielded EXCEPT ![cur] =
                                 Append(@, Chunk(<<"Error: ">> \o response.text,
                                                 response.req))]
                          /\ gens' = [gens EXCEPT ![cur] = "error_yielded"]
                          /\ cpc' = "idle"
                     [] OTHER ->
                          UNCHANGED <<yielded, gens, cpc>>
       ELSE /\ yielded' = [yielded EXCEPT ![cur] =
                   Append(@, Chunk(<<"Error: ">> \o EmptyText, cur))]
            /\ gens' = [gens EXCEPT ![cur] = "error_yielded"]
            /\ cpc' = "idle"
            /\ response_queue' = response_queue
    /\ UNCHANGED <<ngen, cur, msg, ready, ret, nclose, nrequeue, enqlog>>
    /\ UNCHANGED workerVars
    /\ UNCHANGED <<request_queue, wlog>>

\* lines 130-151: one self._response_queue.get(timeout=timeout) and the branch
\* taken on what it returned or raised
NextGet ==
    /\ cpc = "next_get"
    /\ IF response_queue # <<>>
       THEN LET response == Head(response_queue)
            IN  /\ response_queue' = Tail(response_queue)
                /\ CASE response.tag = "streaming" ->
                          /\ yielded' = [yielded EXCEPT ![cur] =
                                 Append(@, Chunk(response.text, response.req))]
                          /\ gens' = [gens EXCEPT ![cur] = "suspended"]
                          /\ cpc' = "idle"
                     [] response.tag = "complete" ->
                          /\ gens' = [gens EXCEPT ![cur] = "done"]
                          /\ cpc' = "idle"
                          /\ yielded' = yielded
                     [] response.tag = "error" ->
                          /\ yielded' = [yielded EXCEPT ![cur] =
                                 Append(@, Chunk(<<"Error: ">> \o response.text,
                                                 response.req))]
                          /\ gens' = [gens EXCEPT ![cur] = "error_yielded"]
                          /\ cpc' = "idle"
                     [] OTHER ->
                          \* 'init': continue; a result message matches no branch
                          UNCHANGED <<yielded, gens, cpc>>
       ELSE \* queue.Empty is not mp.TimeoutError: caught at line 149
            /\ yielded' = [yielded EXCEPT ![cur] =
                   Append(@, Chunk(<<"Error: ">> \o EmptyText, cur))]
            /\ gens' = [gens EXCEPT ![cur] = "error_yielded"]
            /\ cpc' = "idle"
            /\ response_queue' = response_queue
    /\ UNCHANGED <<ngen, cur, msg, ready, ret, nclose, nrequeue, enqlog>>
    /\ UNCHANGED workerVars
    /\ UNCHANGED <<request_queue, wlog>>

----------------------------------------------------------------------------
(* Backend._isReady *)

\* line 161: the call.  A call that may take a message off the queue is made
\* only while the bound on such calls allows it.
IsReadyCall(maxRequeue) ==
    /\ cpc = "idle"
    /\ ready \/ nrequeue < maxRequeue
    /\ cpc' = "isready_enter"
    /\ UNCHANGED <<gens, yielded, ngen, cur, msg, ready, ret, nclose, nrequeue, enqlog>>
    /\ UNCHANGED workerVars
    /\ UNCHANGED <<request_queue, response_queue, wlog>>

\* faulty variant of IsReadyCheck: once ready, is_alive() is not consulted
IsReadyCheckStale ==
    /\ cpc = "isready_enter"
    /\ IF ready
       THEN ret' = TRUE /\ cpc' = "idle"
       ELSE IF ~IsAlive
            THEN ret' = FALSE /\ cpc' = "idle"
            ELSE ret' = ret /\ cpc' = "isready_get"
    /\ UNCHANGED <<gens, yielded, ngen, cur, msg, ready, nclose, nrequeue, enqlog>>
    /\ UNCHANGED workerVars
    /\ UNCHANGED <<request_queue, response_queue, wlog>>

\* lines 162-165
IsReadyCheck ==
    /\ cpc = "isready_enter"
    /\ IF ready
       THEN ret' = IsAlive /\ cpc' = "idle"
       ELSE IF ~IsAlive
            THEN ret' = FALSE /\ cpc' = "idle"
            ELSE ret' = ret /\ cpc' = "isready_get"
    /\ UNCHANGED <<gens, yielded, ngen, cur, msg, ready, nclose, nrequeue, enqlog>>
    /\ UNCHANGED workerVars
    /\ UNCHANGED <<request_queue, response_queue, wlog>>

\* lines 166-170 and 172-174: self._response_queue.get(timeout=0.01)
IsReadyGet ==
    /\ cpc = "isready_get"
    /\ IF response_queue # <<>>
       THEN /\ response_queue' = Tail(response_queue)
            /\ IF Head(response_queue).tag = "init"
               THEN /\ ready' = TRUE /\ ret' = TRUE /\ cpc' = "idle"
                    /\ UNCHANGED <<msg, nrequeue>>
               ELSE /\ nrequeue' = nrequeue + 1
                    /\ msg' = Head(response_queue)
                    /\ ready' = ready /\ ret' = ret /\ cpc' = "isready_put"
       ELSE /\ ret' = FALSE
            /\ cpc' = "idle"
            /\ UNCHANGED <<response_queue, msg, ready, nrequeue>>
    /\ UNCHANGED <<gens, yielded, ngen, cur, nclose, enqlog>>
    /\ UNCHANGED workerVars
    /\ UNCHANGED <<request_queue, wlog>>

\* lines 171 and 174: self._response_queue.put(msg), blocks while the queue is
\* full; then return False
IsReadyPut ==
    /\ cpc = "isready_put"
    /\ Len(response_queue) < ResponseQueueMaxsize
    /\ response_queue' = Append(response_queue, msg)
    /\ msg' = InitMsg
    /\ ret' = FALSE
    /\ cpc' = "idle"
    /\ UNCHANGED <<gens, yielded, ngen, cur, ready, nclose, nrequeue, enqlog>>
    /\ UNCHANGED workerVars
    /\ UNCHANGED <<request_queue, wlog>>

----------------------------------------------------------------------------
(* Backend.close *)

CloseCall ==
    /\ cpc = "idle"
    /\ nclose < MaxCloses
    /\ nclose' = nclose + 1
    /\ cpc' = "close_put"
    /\ UNCHANGED <<gens, yielded, ngen, cur, msg, ready, ret, nrequeue, enqlog>>
    /\ UNCHANGED workerVars
    /\ UNCHANGED <<request_queue, response_queue, wlog>>

\* line 191: self._request_queue.put(None), blocks while the queue is full
ClosePut ==
    /\ cpc = "close_put"
    /\ Len(request_queue) < RequestQueueMaxsize
    /\ request_queue' = Append(request_queue, None)
    /\ enqlog' = Append(enqlog, None)
    /\ cpc' = "close_join"
    /\ UNCHANGED <<gens, yielded, ngen, cur, msg, ready, ret, nclose, nrequeue>>
    /\ UNCHANGED workerVars
    /\ UNCHANGED <<response_queue, wlog>>

\* lines 192-194: join(timeout=2) returns when the worker has exited or the
\* two seconds have passed; a worker still alive is terminated
CloseJoin ==
    /\ cpc = "close_join"
    /\ cpc' = "idle"
    /\ wpc' = IF IsAlive THEN "terminated" ELSE wpc
    /\ UNCHANGED <<vdevice, vlm, item, text_buffer, pending, nfrag, result, werr>>
    /\ UNCHANGED <<gens, yielded, ngen, cur, msg, ready, ret, nclose, nrequeue, enqlog>>
    /\ UNCHANGED <<request_queue, response_queue, wlog>>

----------------------------------------------------------------------------
(* Specifications *)

\* fragments of the generation stream, general specification
Fragments == {<<"a", ".", " ", "b">>}

Worker(frags, maxFrag) ==
    \/ WorkerCreateVDevice
    \/ WorkerCreateVLM
    \/ WorkerPutInit
    \/ WorkerGet
    \/ WorkerFragment(frags, maxFrag)
    \/ WorkerPutSentence
    \/ WorkerStreamEnd
    \/ WorkerPutFlush
    \/ WorkerClearContext
    \/ WorkerGenerationRaises
    \/ WorkerPutComplete
    \/ WorkerPutResult
    \/ WorkerOuterExcept
    \/ WorkerFinally

Caller(maxReq) ==
    \/ Submit(maxReq)
    \/ \E g \in 1..maxReq : NextCall(g)
    \/ NextPut
    \/ NextGet
    \/ IsReadyCall(MaxRequeues)
    \/ IsReadyCheck
    \/ IsReadyGet
    \/ IsReadyPut
    \/ CloseCall
    \/ ClosePut
    \/ CloseJoin

Next == Worker(Fragments, MaxFragments) \/ Caller(MaxRequests)

Spec == Init /\ [][Next]_vars

\* A worker whose generation streams are empty and never raise.
EmptyStreamWorker ==
    \/ WorkerCreateVDevice
    \/ WorkerCreateVLM
    \/ WorkerPutInit
    \/ WorkerGet
    \/ WorkerStreamEnd
    \/ WorkerClearContext
    \/ WorkerPutComplete
    \/ WorkerPutResult
    \/ WorkerOuterExcept
    \/ WorkerFinally

\* A worker whose generation streams are empty or raise at once.
RaisingWorker ==
    \/ EmptyStreamWorker
    \/ WorkerGenerationRaises

\* Recovery: the raising worker and vlm_inference calls.
RecoverNext ==
    \/ RaisingWorker
    \/ Submit(MaxRequests)
    \/ \E g \in 1..MaxRequests : NextCall(g)
    \/ NextPut
    \/ NextGet

\* The worker with its fairness: the process runs whenever it is not blocked
\* on a queue, and a generation stream ends (max_generated_tokens).
RecoverLiveSpec == Init /\ [][RecoverNext]_vars /\ WF_vars(RaisingWorker)

\* Requests: the worker and sequential vlm_inference calls only.
RequestNext ==
    \/ Worker(Fragments, MaxFragments)
    \/ Submit(MaxRequests)
    \/ \E g \in 1..MaxRequests : NextCall(g)
    \/ NextPut
    \/ NextGet

RequestSpec == Init /\ [][RequestNext]_vars

\* Serving: the worker, vlm_inference calls and close(); no readiness polling.
ServeNext ==
    \/ Worker(Fragments, MaxFragments)
    \/ Submit(MaxRequests)
    \/ \E g \in 1..MaxRequests : NextCall(g)
    \/ NextPut
    \/ NextGet
    \/ CloseCall
    \/ ClosePut
    \/ CloseJoin

ServeSpec == Init /\ [][ServeNext]_vars

\* Readiness: every operation of the Backend, generation streams empty.
ReadyNext ==
    \/ EmptyStreamWorker
    \/ Caller(MaxRequests)

ReadySpec == Init /\ [][ReadyNext]_vars

ReadyLiveSpec == ReadySpec /\ WF_vars(EmptyStreamWorker)

\* Backpressure: many calls, each generation stream empty; no readiness
\* polling and no close().
BPNext ==
    \/ EmptyStreamWorker
    \/ Submit(BPMaxRequests)
    \/ \E g \in 1..BPMaxRequests : NextCall(g)
    \/ NextPut
    \/ NextGet

BPSpec == Init /\ [][BPNext]_vars

\* Backpressure with close().
CloseNext ==
    \/ BPNext
    \/ CloseCall
    \/ ClosePut
    \/ CloseJoin

CloseSpec == Init /\ [][CloseNext]_vars

\* Flood: one call whose generation stream is long and whose caller stops
\* reading after the first chunk; no close().
FloodNext ==
    \/ Worker(Fragments, FloodMaxFragments)
    \/ Submit(1)
    \/ (ngen = 1 /\ yielded[1] = <<>> /\ NextCall(1))
    \/ NextPut
    \/ NextGet
    \/ IsReadyCall(MaxRequeues)
    \/ IsReadyCheck
    \/ IsReadyGet
    \/ IsReadyPut

FloodSpec == Init /\ [][FloodNext]_vars

\* Segmenter: one call, its generation stream drawn from short fragments over
\* a letter, the terminators and the whitespace characters; the caller waits
\* in its first read.
SegChars == {"a", ".", "?", " ", "\n"}
SegPairChars == {"a", ".", " "}
SegFragments ==
    {<<c>> : c \in SegChars} \cup {<<c, d>> : c, d \in SegPairChars} \cup {IM_END}

SegNext ==
    \/ Worker(SegFragments, SegMaxFragments)
    \/ Submit(1)
    \/ NextCall(1)
    \/ NextPut

SegSpec == Init /\ [][SegNext]_vars

\* Scenario: one call whose generation stream is drawn from the fragments
\* "The sky is", " blue. The", " grass is green." and two one-character
\* fragments.
SkyIs ==
    <<"T", "h", "e", " ", "s", "k", "y", " ", "i", "s">>
BlueThe ==
    <<" ", "b", "l", "u", "e", ".", " ", "T", "h", "e">>
GrassIsGreen ==
    <<" ", "g", "r", "a", "s", "s", " ", "i", "s", " ", "g", "r", "e", "e",
      "n", ".">>
SkyFragments == {SkyIs, BlueThe, GrassIsGreen, <<" ">>, <<".">>}

SkyNext ==
    \/ Worker(SkyFragments, SegMaxFragments)
    \/ Submit(1)
    \/ NextCall(1)
    \/ NextPut

SkySpec == Init /\ [][SkyNext]_vars

----------------------------------------------------------------------------
(* Reading the worker's history *)

\* positions of wlog at which an item was read from the request queue
GetPositions == {i \in 1..Len(wlog) : wlog[i].ev = "get"}
RequestGets == {i \in GetPositions : wlog[i].req # None}

\* position of the first read after position i, or the end of the history
SegmentEnd(i) ==
    IF \E j \in GetPositions : j > i
    THEN SetMin({j \in GetPositions : j > i}) - 1
    ELSE Len(wlog)

\* the puts the worker made between the read at position i and the next read
IsPut(e) == e.ev = "put"
IsGet(e) == e.ev = "get"

SegmentPuts(i) == SelectSeq(SubSeq(wlog, i + 1, SegmentEnd(i)), IsPut)

\* the number of Streaming messages at the head of ps
LeadingStreaming(ps) ==
    LET others == {n \in 1..Len(ps) : ps[n].tag # "streaming"}
    IN  IF others = {} THEN Len(ps) ELSE SetMin(others) - 1

\* the tags that follow the leading Streaming messages
TerminalTags(ps) ==
    LET k == LeadingStreaming(ps)
    IN  [n \in 1..(Len(ps) - k) |-> ps[k + n].tag]

\* the worker has finished with the item read at position i
SegmentClosed(i) ==
    \/ \E j \in GetPositions : j > i
    \/ wpc \in {"get", "finally", "exited"}

Raised(r) == \E i \in 1..Len(wlog) : wlog[i] = RaiseEv(r)
PutFor(r, tag) == \E i \in 1..Len(wlog) : wlog[i].ev = "put" /\ wlog[i].req = r /\ wlog[i].tag = tag
Dequeued(r) == \E i \in GetPositions : wlog[i].req = r
InitPuts == {i \in 1..Len(wlog) : wlog[i].ev = "put" /\ wlog[i].tag = "init"}

----------------------------------------------------------------------------
(* C1 *)

\* C1: for every Request the worker has dequeued, the messages it put between
\* that read and the next read of the request queue all belong to that Request
\* and are Streaming messages followed by nothing yet, by Complete, by Complete
\* and Result, or by one Error; once the worker has finished with the Request
\* they are Streaming* followed by exactly (Complete, Result) or exactly
\* (Error).
C1_MessageOrder ==
    \A i \in RequestGets :
        LET ps == SegmentPuts(i)
            t == TerminalTags(ps)
        IN  /\ \A n \in 1..Len(ps) : ps[n].req = wlog[i].req
            /\ t \in {<<>>, <<"complete">>, <<"complete", "result">>, <<"error">>}
            /\ SegmentClosed(i) => t \in {<<"complete", "result">>, <<"error">>}

\* two Requests served, the first with Streaming messages before its terminal pair
C1_Witness ==
    \E i, j \in RequestGets :
        /\ i < j
        /\ LeadingStreaming(SegmentPuts(i)) >= 2
        /\ TerminalTags(SegmentPuts(i)) = <<"complete", "result">>
        /\ TerminalTags(SegmentPuts(j)) = <<"complete", "result">>

----------------------------------------------------------------------------
(* C2 *)

\* the worker has finished with Request r
FinishedWith(r) ==
    /\ Dequeued(r)
    /\ item # r \/ wpc \in {"get", "finally", "exited"}

TimeoutChunkText == <<"Error: ">> \o EmptyText
TimedOut(g) == \E n \in 1..Len(yielded[g]) : yielded[g][n].text = TimeoutChunkText

\* C2: when generation raised for a Request, the worker has put an Error
\* message for it by the time it has finished with the Request, and a
\* generator that read to its end without a read timeout yielded
\* "Error: <message>" as its last chunk.
C2_ErrorOnRaise ==
    \A r \in 1..ngen :
        /\ (Raised(r) /\ FinishedWith(r)) => PutFor(r, "error")
        /\ (Raised(r) /\ gens[r] = "done" /\ ~TimedOut(r)) =>
               /\ yielded[r] # <<>>
               /\ yielded[r][Len(yielded[r])].text = <<"Error: ">> \o GenerationError

----------------------------------------------------------------------------
(* C3 *)

TerminalPut(r) == PutFor(r, "result") \/ PutFor(r, "error")
Queued(r) == \E n \in 1..Len(request_queue) : request_queue[n] = r

\* C3: once the worker has put the terminal message of a Request whose
\* generation raised, it is alive and back at the read of the request queue;
\* and a next Request that is on the request queue after such a Request is
\* processed to its terminal message.
C3_WorkerSurvives ==
    /\ [](\A r \in 1..MaxRequests :
            (Raised(r) /\ item = r /\ TerminalPut(r)) => (IsAlive /\ wpc = "get"))
    /\ \A r \in 1..(MaxRequests - 1) :
            (Raised(r) /\ Queued(r + 1)) ~> TerminalPut(r + 1)

\* a Request served to its terminal message after one whose generation raised
C3_Witness ==
    /\ Raised(1)
    /\ TerminalPut(2)
    /\ wpc = "get"

----------------------------------------------------------------------------
(* C4 *)

\* the items the worker has read, in order
DequeuedSeq ==
    LET gets == SelectSeq(wlog, IsGet)
    IN  [n \in 1..Len(gets) |-> gets[n].req]

IsPrefix(a, b) == Len(a) <= Len(b) /\ a = SubSeq(b, 1, Len(a))

\* C4: the worker reads the items in the order they were put on the request
\* queue, which for Requests is the order of the calls; and when it reads a
\* Request, the terminal message (Result or Error) of every Request read
\* earlier has already been put on the response queue.
C4_SubmissionOrder ==
    /\ IsPrefix(DequeuedSeq, enqlog)
    /\ \A a, b \in 1..Len(enqlog) :
           (a < b /\ enqlog[a] # None /\ enqlog[b] # None) => enqlog[a] < enqlog[b]
    /\ \A i, j \in RequestGets :
           i < j => \E k \in (i + 1)..(j - 1) :
                        /\ wlog[k].ev = "put"
                        /\ wlog[k].req = wlog[i].req
                        /\ wlog[k].tag \in {"result", "error"}

\* two Requests have been read, the second after the first's terminal message
C4_Witness ==
    /\ DequeuedSeq = <<1, 2>>
    /\ TerminalPut(1)

----------------------------------------------------------------------------
(* C5 *)

ServeLoop == {"get", "generate", "put_sentence", "put_flush", "clear_context",
              "put_complete", "put_result"}

\* C5: the Init message is put at most once; every read of the request queue
\* is preceded by it; and while the worker is in its serve loop it has been
\* put exactly once.
C5_InitOnce ==
    /\ Cardinality(InitPuts) <= 1
    /\ \A i \in GetPositions : \E k \in InitPuts : k < i
    /\ wpc \in ServeLoop => Cardinality(InitPuts) = 1

\* initialization succeeded and a Request has been read
C5_Witness ==
    /\ Cardinality(InitPuts) = 1
    /\ RequestGets # {}

----------------------------------------------------------------------------
(* C6 *)

\* VDevice(...) or VLM(...) raised
AcquisitionFailed == werr # NoText

OuterErrorPuts == {i \in 1..Len(wlog) : wlog[i].ev = "put" /\ wlog[i].tag = "error"}

C6_State ==
    AcquisitionFailed =>
        /\ InitPuts = {}
        /\ GetPositions = {}
        /\ Cardinality(OuterErrorPuts) <= 1
        /\ wpc \in {"finally", "exited"} => Cardinality(OuterErrorPuts) = 1
        /\ wpc \in {"outer_except", "finally", "exited", "terminated"}
        /\ ~ready
        /\ ret = FALSE

\* C6: after a failed acquisition the worker puts one Error message and no
\* Init message, never reads the request queue, and its process ends; no
\* _isReady call returns True.
C6_AcquisitionFailure ==
    /\ []C6_State
    /\ AcquisitionFailed ~> ~IsAlive

\* the worker has ended after a failed acquisition and an _isReady call that
\* took its Error message has returned
C6_Witness ==
    /\ AcquisitionFailed
    /\ wpc = "exited"
    /\ nrequeue = 1
    /\ cpc = "idle"
    /\ ret = FALSE

----------------------------------------------------------------------------
(* C8 *)

IsReadyReturns ==
    /\ cpc \in {"isready_enter", "isready_get", "isready_put"}
    /\ cpc' = "idle"

\* C8: every _isReady call returns True exactly when Init has been observed
\* (by this or an earlier _isReady call) and the worker process is alive; an
\* observed Init stays observed.
C8_Readiness ==
    [][/\ IsReadyReturns => (ret' = (ready' /\ IsAlive'))
       /\ ready => ready']_vars

\* _isReady has returned False after Init was observed, the process having ended
C8_Witness ==
    /\ ready
    /\ ~IsAlive
    /\ ret = FALSE
    /\ cpc = "idle"

----------------------------------------------------------------------------
(* C7 *)

\* C7: close() returns after finitely many steps whatever the state of the
\* worker and of the request queue: while it waits at its put of the sentinel
\* there is room on the request queue, or the worker is still running and may
\* make room; and once it has returned the worker is no longer running.
C7_CloseReturns ==
    /\ cpc = "close_put" => (Len(request_queue) < RequestQueueMaxsize \/ IsAlive)
    /\ (nclose > 0 /\ cpc \notin {"close_put", "close_join"}) => ~IsAlive

----------------------------------------------------------------------------
(* C9 *)

\* C9: an _isReady call that took a non-Init message off the response queue
\* can put it back without waiting: the queue has room whenever the call is at
\* its put.
C9_NonBlocking ==
    cpc = "isready_put" => Len(response_queue) < ResponseQueueMaxsize

----------------------------------------------------------------------------
(* C10 *)

\* C10: the request queue never holds more than 10 (RequestQueueMaxsize) items, so a put made while
\* 10 are queued completes only after the worker has taken one.
C10_RequestQueueBound ==
    Len(request_queue) <= RequestQueueMaxsize

\* ten Requests are queued and the put of an eleventh is waiting
C10_Witness ==
    /\ Len(request_queue) = 10
    /\ cpc = "next_put"
    /\ cur = 11

----------------------------------------------------------------------------
(* C11 *)

\* a step of vlm_inference that takes a message off the response queue
NextGetTakes ==
    /\ cpc = "next_get"
    /\ Len(response_queue') < Len(response_queue)

\* the chunks generator g has yielded, as texts
YieldedTexts(g) == [n \in 1..Len(yielded[g]) |-> yielded[g][n].text]

\* C11: a message read by vlm_inference is handled by its tag: Streaming
\* yields exactly its chunk and the generator stays open; Complete ends the
\* generator and yields nothing; Error yields exactly "Error: <message>" and
\* the generator then ends without another read; Init yields nothing and the
\* generator reads again.
C11_TagHandling ==
    [][/\ NextGetTakes =>
            LET response == Head(response_queue)
            IN  /\ response.tag = "streaming" =>
                       /\ YieldedTexts(cur)' = Append(YieldedTexts(cur), response.text)
                       /\ gens'[cur] = "suspended"
                /\ response.tag = "complete" =>
                       /\ yielded' = yielded
                       /\ gens'[cur] = "done"
                /\ response.tag = "error" =>
                       /\ YieldedTexts(cur)' =
                              Append(YieldedTexts(cur), <<"Error: ">> \o response.text)
                       /\ gens'[cur] = "error_yielded"
                /\ response.tag = "init" =>
                       /\ yielded' = yielded
                       /\ gens' = gens
                       /\ cpc' = "next_get"
       /\ \A g \in 1..ngen :
            (gens[g] = "error_yielded" /\ gens'[g] # gens[g]) =>
                /\ gens'[g] = "done"
                /\ yielded' = yielded
                /\ response_queue' = response_queue]_vars

\* a generator has skipped Init, yielded two Streaming chunks and ended on
\* Complete
C11_Witness ==
    /\ ngen >= 1
    /\ gens[1] = "done"
    /\ YieldedTexts(1) = <<(<<"a", ".">>), (<<"b">>)>>
    /\ InitPuts # {}
    /\ \A n \in 1..Len(response_queue) : response_queue[n].tag # "init"

----------------------------------------------------------------------------
(* C12 *)

\* line 147: the chunk of the mp.TimeoutError handler
ErrorTimeout == <<"Error: ">> \o <<"Timeout">>

\* a step of vlm_inference whose read of the response queue times out
NextGetTimesOut ==
    /\ cpc = "next_get"
    /\ response_queue = <<>>
    /\ cpc' = "idle"

\* C12: a read of the response queue that times out yields exactly the one
\* chunk "Error: Timeout", and the generator then ends.
C12_TimeoutChunk ==
    [][NextGetTimesOut =>
          /\ YieldedTexts(cur)' = Append(YieldedTexts(cur), ErrorTimeout)
          /\ gens'[cur] = "error_yielded"]_vars

----------------------------------------------------------------------------
(* C13 *)

\* Request r has been put on the request queue
Enqueued(r) == \E n \in 1..Len(enqlog) : enqlog[n] = r

\* C13: once a vlm_inference call has returned its generator, its Request has
\* been put on the request queue, whether or not next() was ever called on
\* the generator.
C13_EnqueuedAtCall ==
    \A g \in 1..ngen : Enqueued(g)

----------------------------------------------------------------------------
(* Reading the generation stream and the chunks of a Request *)

RECURSIVE Flatten(_)
Flatten(ts) == IF ts = <<>> THEN <<>> ELSE Head(ts) \o Flatten(Tail(ts))

\* the fragments the generation stream has produced for Request r, without
\* the end markers the loop skips
StreamOf(r) ==
    LET evs == SelectSeq(wlog, LAMBDA e : e.ev = "fragment" /\ e.req = r /\ e.text # IM_END)
    IN  [n \in 1..Len(evs) |-> evs[n].text]

InputText(r) == Flatten(StreamOf(r))

\* the Streaming chunks of Request r on the response queue
EmittedChunks(r) ==
    LET ms == SelectSeq(response_queue, LAMBDA m : m.tag = "streaming" /\ m.req = r)
    IN  [n \in 1..Len(ms) |-> ms[n].text]

\* the generation of Request r has ended normally
Cleared(r) == \E i \in 1..Len(wlog) : wlog[i] = ClearEv(r)

\* s contains a sentence terminator followed by whitespace
HasBoundary(s) == \E i \in 2..Len(s) : s[i] \in Whitespace /\ s[i - 1] \in Terminators

\* position i of s is whitespace in a run that directly follows a terminator
AfterTerminator(s, i) ==
    /\ s[i] \in Whitespace
    /\ \E k \in 1..(i - 1) :
         /\ s[k] \in Terminators
         /\ \A j \in (k + 1)..i : s[j] \in Whitespace

\* s without the whitespace runs that directly follow a terminator
DropAfterTerminators(s) ==
    LET kept == SelectSeq([i \in 1..Len(s) |-> <<i, s[i]>>],
                          LAMBDA p : ~AfterTerminator(s, p[1]))
    IN  [n \in 1..Len(kept) |-> kept[n][2]]

----------------------------------------------------------------------------
(* C14 *)

\* C14 as stated: when the fragments of a finished generation contain a
\* terminator followed by whitespace, the concatenation of the Streaming
\* chunks equals the trimmed concatenation of the fragments.
C14_ConcatEqualsInput ==
    (Cleared(1) /\ HasBoundary(InputText(1))) =>
        Flatten(EmittedChunks(1)) = Strip(InputText(1))

\* C14 amended: when the fragments of a finished generation contain a
\* terminator followed by whitespace, the concatenation of the Streaming
\* chunks equals the trimmed concatenation of the fragments without the
\* whitespace runs that directly follow a terminator.
C14_ConcatEqualsSqueezedInput ==
    (Cleared(1) /\ HasBoundary(InputText(1))) =>
        Flatten(EmittedChunks(1)) = DropAfterTerminators(Strip(InputText(1)))

\* a finished generation of three fragments that emitted a sentence and a
\* flushed remainder, whose concatenation lost the whitespace between them
C14_Witness ==
    /\ Cleared(1)
    /\ Len(StreamOf(1)) = 3
    /\ HasBoundary(InputText(1))
    /\ Len(EmittedChunks(1)) >= 2
    /\ Flatten(EmittedChunks(1)) # Strip(InputText(1))

----------------------------------------------------------------------------
(* C15 *)

\* text t is non-empty and neither starts nor ends with whitespace
Trimmed(t) ==
    /\ t # <<>>
    /\ t[1] \notin Whitespace
    /\ t[Len(t)] \notin Whitespace

\* C15: every Streaming chunk on the response queue, whether it was put at a
\* sentence boundary or by the final flush, is non-empty and has no leading or
\* trailing whitespace.
C15_ChunksTrimmed ==
    \A n \in 1..Len(response_queue) :
        response_queue[n].tag = "streaming" => Trimmed(response_queue[n].text)

\* the final flush has put a chunk taken from a buffer that had whitespace
\* around its text, after a sentence chunk
C15_Witness ==
    /\ wpc = "clear_context"
    /\ Strip(text_buffer) # <<>>
    /\ Strip(text_buffer) # text_buffer
    /\ Len(EmittedChunks(1)) >= 2

----------------------------------------------------------------------------
(* C16 *)

NoTerminator(s) == \A i \in 1..Len(s) : s[i] \notin Terminators

\* C16 as stated: a finished generation whose fragments (at least one)
\* contain no terminator has emitted exactly one Streaming chunk, the trimmed
\* concatenation of the fragments.
C16_OneChunk ==
    (Cleared(1) /\ StreamOf(1) # <<>> /\ NoTerminator(InputText(1))) =>
        EmittedChunks(1) = <<Strip(InputText(1))>>

\* C16 amended: while the fragments produced so far contain no terminator, no
\* Streaming chunk is put before the stream has ended; and a finished
\* generation without any terminator has emitted exactly one chunk, the
\* trimmed concatenation of the fragments, when that text is non-empty, and
\* no chunk when it is empty.
C16_OneChunkIfNonEmpty ==
    NoTerminator(InputText(1)) =>
        /\ (item = 1 /\ wpc \in {"generate", "put_sentence", "put_flush"}) =>
               EmittedChunks(1) = <<>>
        /\ Cleared(1) =>
               EmittedChunks(1) = IF Strip(InputText(1)) = <<>>
                                  THEN <<>>
                                  ELSE <<Strip(InputText(1))>>

\* a finished generation of three fragments without terminator, flushed as one
\* chunk that lost surrounding whitespace
C16_Witness ==
    /\ Cleared(1)
    /\ Len(StreamOf(1)) = 3
    /\ NoTerminator(InputText(1))
    /\ EmittedChunks(1) = <<Strip(InputText(1))>>
    /\ Strip(InputText(1)) # InputText(1)

----------------------------------------------------------------------------
(* C17 *)

\* the worker has called release() on handle h
ReleaseAttempted(h) == \E i \in 1..Len(wlog) : wlog[i] = ReleaseEv(h)

\* C17: when the worker process has run its teardown to the end and the
\* device handle had been acquired, vdevice.release() has been called,
\* whatever became of the model handle.
C17_DeviceReleaseAttempted ==
    (wpc = "exited" /\ vdevice # "unbound") => ReleaseAttempted("vdevice")

----------------------------------------------------------------------------
(* C18 *)

TheSkyIsBlue ==
    <<"T", "h", "e", " ", "s", "k", "y", " ", "i", "s", " ", "b", "l", "u",
      "e", ".">>
TheGrassIsGreen ==
    <<"T", "h", "e", " ", "g", "r", "a", "s", "s", " ", "i", "s", " ", "g",
      "r", "e", "e", "n", ".">>

\* the pieces of s before the last one, trimmed, the empty ones left out
CompleteSentences(s) ==
    LET pieces == ReSplit(s)
    IN  StrippedNonEmpty(SubSeq(pieces, 1, Len(pieces) - 1))

LastPiece(s) == ReSplit(s)[Len(ReSplit(s))]

\* the worker is between two fragments of the stream of Request 1
BetweenFragments == item = 1 /\ wpc = "generate"

\* C18: whenever the loop is between two fragments, the chunks emitted so far
\* are the trimmed pieces, in order, that the split of the whole text so far
\* yields before its last piece, and the buffer is that last piece (after
\* whitespace that followed an emitted sentence) and holds no sentence
\* boundary; and in the scenario "The sky is blue." is emitted while the
\* second fragment is processed and "The grass is green." only by the flush.
C18_EmitAtBoundary ==
    /\ BetweenFragments =>
           /\ EmittedChunks(1) = CompleteSentences(InputText(1))
           /\ LStrip(text_buffer) = LStrip(LastPiece(InputText(1)))
           /\ ~HasBoundary(text_buffer)
    /\ (BetweenFragments /\ StreamOf(1) = <<SkyIs>>) => EmittedChunks(1) = <<>>
    /\ (BetweenFragments /\ StreamOf(1) = <<SkyIs, BlueThe>>) =>
           /\ EmittedChunks(1) = <<TheSkyIsBlue>>
           /\ text_buffer = <<"T", "h", "e">>
    /\ (item = 1 /\ wpc \in {"generate", "put_flush"}
           /\ StreamOf(1) = <<SkyIs, BlueThe, GrassIsGreen>>) =>
           EmittedChunks(1) = <<TheSkyIsBlue>>
    /\ (Cleared(1) /\ StreamOf(1) = <<SkyIs, BlueThe, GrassIsGreen>>) =>
           EmittedChunks(1) = <<TheSkyIsBlue, TheGrassIsGreen>>

\* the scenario has run to its end
C18_Witness ==
    /\ Cleared(1)
    /\ StreamOf(1) = <<SkyIs, BlueThe, GrassIsGreen>>
    /\ EmittedChunks(1) = <<TheSkyIsBlue, TheGrassIsGreen>>

----------------------------------------------------------------------------
(* C19 *)

\* what the worker did for Request r after reading it: its puts, its clear
\* of the context and the raise of its generation, in order
EventsOf(r) ==
    SelectSeq(wlog, LAMBDA e : e.req = r /\ e.ev \in {"put", "clear", "raise"})

\* the kind of an event: the tag of a put, else "clear" or "raise"
Kind(e) == IF e.ev = "put" THEN e.tag ELSE e.ev

\* the kinds of the events of r that follow its leading Streaming messages
AfterStreaming(r) ==
    LET evs == EventsOf(r)
        k == LeadingStreaming(evs)
    IN  [n \in 1..(Len(evs) - k) |-> Kind(evs[k + n])]

\* C19: for every Request, what follows its Streaming messages is one clear
\* of the context, then Complete, then Result, when generation ended
\* normally, and the raise, then Complete, then Result, without any clear,
\* when generation raised: the clear happens exactly once, after the last
\* Streaming message and before Complete, and never for a raised generation.
C19_ClearOnce ==
    \A r \in 1..ngen :
        AfterStreaming(r) \in
            {<<>>,
             <<"clear">>, <<"clear", "complete">>, <<"clear", "complete", "result">>,
             <<"raise">>, <<"raise", "complete">>, <<"raise", "complete", "result">>}

\* a Request with Streaming messages was cleared and completed, and the next
\* one raised and completed without a clear
C19_Witness ==
    /\ ngen = 2
    /\ LeadingStreaming(EventsOf(1)) >= 1
    /\ AfterStreaming(1) = <<"clear", "complete", "result">>
    /\ AfterStreaming(2) = <<"raise", "complete", "result">>

----------------------------------------------------------------------------
(* C20 *)

\* the Requests put on the request queue before the first sentinel
EnqueuedBeforeSentinel ==
    {enqlog[n] : n \in {m \in 1..Len(enqlog) :
                          \A k \in 1..m : enqlog[k] # None}}

\* C20: the step in which the worker reads the sentinel takes it to its
\* teardown, and by then every Request put on the request queue before the
\* sentinel has had its terminal message put; from then on the worker reads
\* nothing more from the request queue and puts nothing more on the response
\* queue: it only releases its handles and ends.
C20_SentinelEndsLoop ==
    [][/\ (item # None /\ item' = None) =>
            /\ wpc' = "finally"
            /\ \A r \in EnqueuedBeforeSentinel : TerminalPut(r)
       /\ item = None =>
            /\ item' = None
            /\ wpc' \in {"finally", "exited", "terminated"}
            /\ request_queue' = request_queue \/ Len(request_queue') > Len(request_queue)
            /\ response_queue' = response_queue \/ Len(response_queue') < Len(response_queue)
            /\ \A i \in (Len(wlog) + 1)..Len(wlog') : wlog'[i].ev = "release"]_vars

\* the worker has ended on the sentinel after serving the Request put before
\* it, and a Request put after the sentinel stays on the request queue
C20_Witness ==
    /\ enqlog = <<1, None, 2>>
    /\ item = None
    /\ wpc = "exited"
    /\ TerminalPut(1)
    /\ request_queue = <<2>>

----------------------------------------------------------------------------
(* C21 *)

\* C21: every chunk a generator has yielded that came from a message of a
\* Request (and not from the Error of a failed acquisition, which belongs to
\* no Request) came from a message of the generator's own Request.
C21_OwnChunks ==
    \A g \in 1..ngen :
        \A n \in 1..Len(yielded[g]) :
            yielded[g][n].req # 0 => yielded[g][n].req = g

----------------------------------------------------------------------------
(* C22 *)

\* the Init message is on the response queue
InitQueued == \E n \in 1..Len(response_queue) : response_queue[n].tag = "init"

\* C22: after a successful initialization the readiness signal stays within
\* reach of _isReady, which returns True only with _ready set and sets it only
\* on reading Init, a message the worker puts once: _ready is set or the Init
\* message is still on the response queue.
C22_ReadinessReachable ==
    InitPuts # {} => (ready \/ InitQueued)

----------------------------------------------------------------------------
(* C23 *)

\* every call so far was read to its end and none is in progress
AllSequencesEnded ==
    /\ ngen >= 1
    /\ cpc = "idle"
    /\ \A g \in 1..ngen : gens[g] = "done"

NoTimeouts == \A g \in 1..ngen : ~TimedOut(g)

\* the texts a Result message can carry
ResultTexts == {NormalResult, ErrorResult(GenerationError)}

\* C23: as long as no read has timed out, when every sequence has ended the
\* response queue holds nothing, or only the Result of the last Request; and
\* no generator has yielded the text of a Result or a chunk of another
\* Request.
C23_NoLeftovers ==
    NoTimeouts =>
        /\ AllSequencesEnded =>
               /\ Len(response_queue) <= 1
               /\ \A n \in 1..Len(response_queue) :
                      /\ response_queue[n].tag = "result"
                      /\ response_queue[n].req = ngen
        /\ \A g \in 1..ngen :
               \A n \in 1..Len(yielded[g]) :
                   /\ yielded[g][n].text \notin ResultTexts
                   /\ yielded[g][n].req \in {0, g}

\* two calls were read to their ends without a timeout, the second after
\* discarding the first one's Result, and only the second Result is left
C23_Witness ==
    /\ ngen = 2
    /\ AllSequencesEnded
    /\ NoTimeouts
    /\ Len(yielded[1]) = 2
    /\ Len(yielded[2]) = 2
    /\ response_queue = <<ResultMsg(2, NormalResult)>>

====
